---- MODULE Spec2Model ----
(***************************************************************************)
(* Signal ping-pong latency benchmark (src/src/main.rs).                   *)
(*                                                                         *)
(* Two processes of one process group, "server" and "client", exchange     *)
(* SIGUSR1 / SIGUSR2 with kill(0, sig).  Each process is one cooperative   *)
(* task: it is suspended only at the recv().await points; every other     *)
(* statement runs in program order.                                        *)
(*                                                                         *)
(* The kernel and the async runtime are modelled by what they do to the    *)
(* program's state:                                                        *)
(*   - kill(0, k) strikes every live process of the group, the sender      *)
(*     included.  What happens at a struck process depends on its          *)
(*     disposition for k: "default" terminates it, "noop" (the empty       *)
(*     handler of setup_ignored_signals) does nothing, "observed" (the     *)
(*     runtime's listener created by signal(kind)) marks the listener.     *)
(*   - The listener coalesces: recv() completes when at least one          *)
(*     notification arrived since the previous completion, and consumes    *)
(*     all of them.  pend counts them so that coalescing is visible.       *)
(*   - sigprocmask changes the mask of the calling (main) thread only;     *)
(*     the runtime built at main.rs:256 already owns worker threads whose  *)
(*     mask is unchanged, so a process-directed signal is never held back  *)
(*     by the mask and its disposition alone decides the outcome.  The     *)
(*     mask is kept as state (blocked) because the program sets it.        *)
(***************************************************************************)
EXTENDS Integers, Sequences, FiniteSets, TLC

\* ------------------------------------------------------------------ bounds
\* Largest round count (args.count) explored.
MaxCount == 3
\* Largest round-trip sample (nanoseconds) explored.
MaxSample == 2
\* Largest number of further updates applied to an accumulator of a long run.
MaxFeed == 3

\* --------------------------------------------------------------- constants
BLOCK_USR1 == 1
BLOCK_USR2 == 2

Proc == {"server", "client"}
Kind == {"SIGUSR1", "SIGUSR2"}
Samples == 0..MaxSample

VARIABLES
    count,      \* args.count, the round count both processes are started with
    pc,         \* control position of each process
    disp,       \* disposition of each kind in each process
    blocked,    \* signal mask set by each process
    pend,       \* notifications held by each process's listener, unconsumed
    message,    \* run_server: loop variable `message`
    remaining,  \* run_client: `remaining`
    bench,      \* run_server: the Benchmarks accumulator
    report,     \* evaluate: the printed report (<<>> until printed)
    installed,  \* history: setup steps completed by each process, in order
    failedAt,   \* history: the setup steps that returned Err
    sent,       \* history: number of send_signal calls made by each process
    sendFailed, \* history: some send_signal call of the process returned Err
    rcvd,       \* history: number of recv() completions of each process
    lastOp,     \* history: last notification operation ("none","send","recv")
    struck,     \* history: notifications of the peer that struck the process
                \*          while it was alive with its setup completed
    fed         \* history: the samples fed to the accumulator

vars == <<count, pc, disp, blocked, pend, message, remaining, bench, report,
          installed, failedAt, sent, sendFailed, rcvd, lastOp, struck, fed>>

\* ------------------------------------------------------------ dispositions
Bit(k) == IF k = "SIGUSR1" THEN BLOCK_USR1 ELSE BLOCK_USR2

\* flags & bit, for bit a power of two
BitAnd(flags, bit) == IF (flags \div bit) % 2 = 1 THEN bit ELSE 0

\* Defective test: the empty handler goes to the kinds whose flag is set.
setup_ignored_signals_inverted(flags) ==
    {k \in Kind : BitAnd(flags, Bit(k)) # 0}

\* The kinds that get the empty handler.
setup_ignored_signals(flags) == {k \in Kind : BitAnd(flags, Bit(k)) = 0}

\* The kinds added to the mask.
setup_blocked_signals(flags) == {k \in Kind : BitAnd(flags, Bit(k)) # 0}

\* Defective order: the mask is changed before the empty handlers are
\* installed.
setup_signals_reversed == <<"blocked", "ignored">>

\* The order in which setup_signals runs its two steps.
setup_signals == <<"ignored", "blocked">>

\* Defective flags: the client passes the server's flags.
setup_client_signals_usr1 == BLOCK_USR1

\* The flags each role passes to setup_signals.
setup_server_signals == BLOCK_USR1
setup_client_signals == BLOCK_USR2
Flags(p) == IF p = "server" THEN setup_server_signals ELSE setup_client_signals

\* Defective listener: each role listens to the kind it sends.
ListenKind_outbound(p) == IF p = "server" THEN "SIGUSR2" ELSE "SIGUSR1"

\* The kind each role listens to, and the kind it sends.
ListenKind(p) == IF p = "server" THEN "SIGUSR1" ELSE "SIGUSR2"
SendKind(p) == IF p = "server" THEN "SIGUSR2" ELSE "SIGUSR1"

\* Defective propagation: the result of a setup step is dropped.
SetupNext_unchecked(ok, stepsDone) ==
    IF stepsDone < Len(setup_signals) THEN "setup" ELSE "setup_done"

\* The `?` after each setup step: Err returns from run_*, Ok goes on.
SetupNext(ok, stepsDone) ==
    IF ~ok THEN "error"
    ELSE IF stepsDone < Len(setup_signals) THEN "setup" ELSE "setup_done"

\* ------------------------------------------------------- wide arithmetic
\* usize, u32 and Duration values do not fit the integers of TLC, so they
\* are kept as natural numbers written in bytes, least significant first,
\* without leading zero bytes (zero is <<>>).  A Duration is its whole
\* number of nanoseconds.
Base == 256

RECURSIVE WNorm(_)
WNorm(a) ==
    IF a = <<>> THEN <<>>
    ELSE IF a[Len(a)] = 0 THEN WNorm(SubSeq(a, 1, Len(a) - 1)) ELSE a

RECURSIVE FromNat(_)
FromNat(n) == IF n = 0 THEN <<>> ELSE <<n % Base>> \o FromNat(n \div Base)

RECURSIVE ToNat(_)
ToNat(a) == IF a = <<>> THEN 0 ELSE a[1] + Base * ToNat(Tail(a))

Digit(a, i) == IF i <= Len(a) THEN a[i] ELSE 0

RECURSIVE AddFrom(_, _, _, _)
AddFrom(a, b, i, c) ==
    IF i > Len(a) /\ i > Len(b) THEN (IF c = 0 THEN <<>> ELSE <<c>>)
    ELSE LET t == Digit(a, i) + Digit(b, i) + c
         IN  <<t % Base>> \o AddFrom(a, b, i + 1, t \div Base)

WAdd(a, b) == AddFrom(a, b, 1, 0)

RECURSIVE MulDigitFrom(_, _, _, _)
MulDigitFrom(a, d, i, c) ==
    IF i > Len(a) THEN (IF c = 0 THEN <<>> ELSE <<c>>)
    ELSE LET t == a[i] * d + c
         IN  <<t % Base>> \o MulDigitFrom(a, d, i + 1, t \div Base)

RECURSIVE WMul(_, _)
WMul(a, b) ==
    IF a = <<>> \/ b = <<>> THEN <<>>
    ELSE LET rest == WMul(a, Tail(b))
         IN  WAdd(WNorm(MulDigitFrom(a, b[1], 1, 0)),
                  IF rest = <<>> THEN <<>> ELSE <<0>> \o rest)

RECURSIVE LtFrom(_, _, _)
LtFrom(a, b, i) ==
    IF i = 0 THEN FALSE
    ELSE IF a[i] # b[i] THEN a[i] < b[i] ELSE LtFrom(a, b, i - 1)

WLt(a, b) == IF Len(a) # Len(b) THEN Len(a) < Len(b) ELSE LtFrom(a, b, Len(a))
WLe(a, b) == ~WLt(b, a)

\* a - b, for a >= b.
RECURSIVE SubFrom(_, _, _, _)
SubFrom(a, b, i, c) ==
    IF i > Len(a) THEN <<>>
    ELSE LET t == a[i] - Digit(b, i) - c
         IN  <<t % Base>> \o SubFrom(a, b, i + 1, IF t < 0 THEN 1 ELSE 0)

WSub(a, b) == WNorm(SubFrom(a, b, 1, 0))

\* The largest q in lo..hi with q * b <= r.
RECURSIVE QDigit(_, _, _, _)
QDigit(r, b, lo, hi) ==
    IF lo = hi THEN lo
    ELSE LET mid == (lo + hi + 1) \div 2
         IN  IF WLe(WNorm(MulDigitFrom(b, mid, 1, 0)), r)
             THEN QDigit(r, b, mid, hi) ELSE QDigit(r, b, lo, mid - 1)

\* a / b for b > 0, rounded down: long division, most significant byte
\* first, r the running remainder.
RECURSIVE DivFrom(_, _, _, _)
DivFrom(a, b, i, r) ==
    IF i = 0 THEN <<>>
    ELSE LET cur == WNorm(<<a[i]>> \o r)
             q == QDigit(cur, b, 0, Base - 1)
         IN  DivFrom(a, b, i - 1, WSub(cur, WNorm(MulDigitFrom(b, q, 1, 0))))
                 \o <<q>>

WDiv(a, b) == WNorm(DivFrom(a, b, Len(a), <<>>))

\* ------------------------------------------------------------- accumulator
\* Duration::min and Duration::max.
Min(a, b) == IF WLe(a, b) THEN a ELSE b
Max(a, b) == IF WLe(b, a) THEN a ELSE b

\* Duration::from_secs(u64::MAX), the initial minimum, in nanoseconds.
SECS_U64_MAX == WMul([i \in 1..8 |-> 255], FromNat(1000000000))

\* Defective initial value: the minimum starts at zero like the maximum.
Benchmarks_new_zero_minimum ==
    [minimum |-> <<>>, maximum |-> <<>>, sum |-> <<>>, squared_sum |-> <<>>,
     count |-> <<>>]

Benchmarks_new ==
    [minimum |-> SECS_U64_MAX, maximum |-> <<>>, sum |-> <<>>,
     squared_sum |-> <<>>, count |-> <<>>]

\* Defective update: the sample is not counted.
update_nocount(b, duration) ==
    [minimum |-> Min(b.minimum, duration),
     maximum |-> Max(b.maximum, duration),
     sum |-> WAdd(b.sum, duration),
     squared_sum |-> WAdd(b.squared_sum, WMul(duration, duration)),
     count |-> b.count]

\* squared_sum is an f64 in the program; it is kept exact here.
update(b, duration) ==
    [minimum |-> Min(b.minimum, duration),
     maximum |-> Max(b.maximum, duration),
     sum |-> WAdd(b.sum, duration),
     squared_sum |-> WAdd(b.squared_sum, WMul(duration, duration)),
     count |-> WAdd(b.count, <<1>>)]

\* `self.count as u32`: the four low bytes.
AsU32(n) == IF Len(n) <= 4 THEN n ELSE WNorm(SubSeq(n, 1, 4))

\* evaluate: Duration / u32 panics when the divisor is zero, before anything
\* is printed (no report: <<>>); otherwise the report is printed.  The
\* quotient is the number of nanoseconds rounded down.
evaluate(b) ==
    IF AsU32(b.count) = <<>> THEN <<>>
    ELSE <<[average |-> WDiv(b.sum, AsU32(b.count)),
            minimum |-> b.minimum, maximum |-> b.maximum, count |-> b.count]>>

\* ------------------------------------------------------------------ kernel
Alive(p) == pc[p] \notin {"unstarted", "done", "error", "killed", "panicked",
                          "terminated"}

\* kill(0, k) by process s, which then moves to position next: every live
\* process of the group is struck, the sender included.
send_signal(s, k, next) ==
    /\ pc' = [p \in Proc |->
                IF Alive(p) /\ disp[p][k] = "default" THEN "killed"
                ELSE IF p = s THEN next ELSE pc[p]]
    /\ pend' = [p \in Proc |->
                  IF Alive(p) /\ disp[p][k] = "observed" THEN pend[p] + 1
                  ELSE pend[p]]
    /\ sent' = [sent EXCEPT ![s] = @ + 1]
    /\ lastOp' = [lastOp EXCEPT ![s] = "send"]
    /\ struck' = [p \in Proc |->
                    IF p # s /\ Alive(p) /\ Len(installed[p]) = Len(setup_signals)
                    THEN struck[p] + 1 ELSE struck[p]]

\* ------------------------------------------------------------------- Init
Init ==
    /\ count \in 0..MaxCount
    /\ pc = [p \in Proc |-> "unstarted"]
    /\ disp = [p \in Proc |-> [k \in Kind |-> "default"]]
    /\ blocked = [p \in Proc |-> {}]
    /\ pend = [p \in Proc |-> 0]
    /\ message = 0
    /\ remaining = 0
    /\ bench = Benchmarks_new
    /\ report = <<>>
    /\ installed = [p \in Proc |-> <<>>]
    /\ failedAt = [p \in Proc |-> {}]
    /\ sent = [p \in Proc |-> 0]
    /\ sendFailed = [p \in Proc |-> FALSE]
    /\ rcvd = [p \in Proc |-> 0]
    /\ lastOp = [p \in Proc |-> "none"]
    /\ struck = [p \in Proc |-> 0]
    /\ fed = {}

\* ------------------------------------------------------- startup and setup
\* The process is created and joins the group; main builds the runtime and
\* parses the arguments.  Dispositions are still the default ones.
Start(p) ==
    /\ pc[p] = "unstarted"
    /\ pc' = [pc EXCEPT ![p] = "setup"]
    /\ UNCHANGED <<struck, fed, count, disp, blocked, pend, message, remaining, bench,
                   report, installed, failedAt, sent, sendFailed, rcvd, lastOp>>

NextStep(p) ==
    IF Len(installed[p]) < Len(setup_signals)
    THEN setup_signals[Len(installed[p]) + 1] ELSE "none"

\* setup_ignored_signals(flags)?  with the sigaction calls returning ok.
SetupIgnoredStep(p, ok) ==
    /\ pc[p] = "setup"
    /\ NextStep(p) = "ignored"
    /\ disp' = [disp EXCEPT ![p] =
                  [k \in Kind |->
                     IF ok /\ k \in setup_ignored_signals(Flags(p))
                     THEN "noop" ELSE disp[p][k]]]
    /\ installed' = [installed EXCEPT ![p] = IF ok THEN Append(@, "ignored") ELSE @]
    /\ failedAt' = [failedAt EXCEPT ![p] = IF ok THEN @ ELSE @ \cup {"ignored"}]
    /\ pc' = [pc EXCEPT ![p] = SetupNext(ok, Len(installed[p]) + 1)]
    /\ UNCHANGED <<struck, fed, count, blocked, pend, message, remaining, bench, report,
                   sent, sendFailed, rcvd, lastOp>>

\* setup_blocked_signals(flags)?  with sigprocmask returning ok; the sleep
\* of setup_*_signals follows the last step.
SetupBlockedStep(p, ok) ==
    /\ pc[p] = "setup"
    /\ NextStep(p) = "blocked"
    /\ blocked' = [blocked EXCEPT ![p] =
                     IF ok THEN @ \cup setup_blocked_signals(Flags(p)) ELSE @]
    /\ installed' = [installed EXCEPT ![p] = IF ok THEN Append(@, "blocked") ELSE @]
    /\ failedAt' = [failedAt EXCEPT ![p] = IF ok THEN @ ELSE @ \cup {"blocked"}]
    /\ pc' = [pc EXCEPT ![p] = SetupNext(ok, Len(installed[p]) + 1)]
    /\ UNCHANGED <<struck, fed, count, disp, pend, message, remaining, bench, report,
                   sent, sendFailed, rcvd, lastOp>>

SetupIgnored(p) == SetupIgnoredStep(p, TRUE)
SetupBlocked(p) == SetupBlockedStep(p, TRUE)

\* signal(SignalKind::user_defined*())? : the runtime installs its handler
\* for the role's inbound kind; notifications are observed from now on.
CreateListener(p) ==
    /\ pc[p] = "setup_done"
    /\ disp' = [disp EXCEPT ![p][ListenKind(p)] = "observed"]
    /\ pc' = [pc EXCEPT ![p] = IF p = "server" THEN "wait_initial" ELSE "ready"]
    /\ UNCHANGED <<struck, fed, count, blocked, pend, message, remaining, bench, report,
                   installed, failedAt, sent, sendFailed, rcvd, lastOp, struck, fed>>

\* ------------------------------------------------------------- run_server
\* Defective wait: recv() is not awaited.
Recv_nowait(p) ==
    /\ pend' = [pend EXCEPT ![p] = 0]
    /\ rcvd' = [rcvd EXCEPT ![p] = @ + 1]
    /\ lastOp' = [lastOp EXCEPT ![p] = "recv"]

\* recv() of p completes: one wake-up consumes everything pending.
Recv(p) ==
    /\ pend[p] > 0
    /\ pend' = [pend EXCEPT ![p] = 0]
    /\ rcvd' = [rcvd EXCEPT ![p] = @ + 1]
    /\ lastOp' = [lastOp EXCEPT ![p] = "recv"]

\* Position of the server at the head of `for message in 0..args.count`.
ServerLoop(m) == IF m < count THEN "send" ELSE "evaluate"

\* The initial recv().await completes; Benchmarks::new(); enter the loop.
ServerRecvInitial ==
    /\ pc["server"] = "wait_initial"
    /\ Recv("server")
    /\ bench' = Benchmarks_new
    /\ fed' = {}
    /\ message' = 0
    /\ pc' = [pc EXCEPT !["server"] = ServerLoop(0)]
    /\ UNCHANGED <<struck, count, disp, blocked, remaining, report, installed,
                   failedAt, sent, sendFailed>>

\* single_start = now; let _ = send_signal(0, SIGUSR2).
ServerSend ==
    /\ pc["server"] = "send"
    /\ send_signal("server", SendKind("server"), "wait")
    /\ UNCHANGED <<fed, count, disp, blocked, message, remaining, bench, report,
                   installed, failedAt, sendFailed, rcvd>>

\* recv().await completes; elapsed() gives the sample; bench.update; next
\* iteration.
ServerRecvRound(duration) ==
    /\ pc["server"] = "wait"
    /\ Recv("server")
    /\ bench' = update(bench, FromNat(duration))
    /\ fed' = fed \cup {FromNat(duration)}
    /\ message' = message + 1
    /\ pc' = [pc EXCEPT !["server"] = ServerLoop(message + 1)]
    /\ UNCHANGED <<struck, count, disp, blocked, remaining, report, installed,
                   failedAt, sent, sendFailed>>

\* bench.evaluate(args); Ok(()).
ServerEvaluate ==
    /\ pc["server"] = "evaluate"
    /\ report' = evaluate(bench)
    /\ pc' = [pc EXCEPT !["server"] =
                IF evaluate(bench) = <<>> THEN "panicked" ELSE "done"]
    /\ UNCHANGED <<struck, fed, count, disp, blocked, pend, message, remaining, bench,
                   installed, failedAt, sent, sendFailed, rcvd, lastOp, struck, fed>>

\* ------------------------------------------------------------- run_client
\* Defective loop: the client echoes again without awaiting the next SIGUSR2.
ClientLoop_nowait(r) == IF r > 0 THEN "echo" ELSE "done"

\* Defective loop: the client leaves the loop one round early.
ClientLoop_early(r) == IF r > 1 THEN "wait" ELSE "done"

\* Position of the client at the head of `while remaining > 0`.
ClientLoop(r) == IF r > 0 THEN "wait" ELSE "done"

\* let _ = send_signal(0, SIGUSR1); remaining = args.count.
ClientSendReady ==
    /\ pc["client"] = "ready"
    /\ send_signal("client", SendKind("client"), ClientLoop(count))
    /\ remaining' = count
    /\ UNCHANGED <<fed, count, disp, blocked, message, bench, report, installed,
                   failedAt, sendFailed, rcvd>>

\* sigusr2.recv().await completes.
ClientRecv ==
    /\ pc["client"] = "wait"
    /\ Recv("client")
    /\ pc' = [pc EXCEPT !["client"] = "echo"]
    /\ UNCHANGED <<struck, fed, count, disp, blocked, message, remaining, bench, report,
                   installed, failedAt, sent, sendFailed>>

\* let _ = send_signal(0, SIGUSR1); remaining -= 1.
ClientEcho ==
    /\ pc["client"] = "echo"
    /\ send_signal("client", SendKind("client"), ClientLoop(remaining - 1))
    /\ remaining' = remaining - 1
    /\ UNCHANGED <<fed, count, disp, blocked, message, bench, report, installed,
                   failedAt, sendFailed, rcvd>>

\* ------------------------------------------------------------------ faults
\* A sigaction of setup_ignored_signals returns Err.
SetupIgnoredFail(p) == SetupIgnoredStep(p, FALSE)

\* sigprocmask returns Err.
SetupBlockedFail(p) == SetupBlockedStep(p, FALSE)

\* signal(kind)? returns Err: run_* returns it.
CreateListenerFail(p) ==
    /\ pc[p] = "setup_done"
    /\ pc' = [pc EXCEPT ![p] = "error"]
    /\ UNCHANGED <<struck, fed, count, disp, blocked, pend, message, remaining, bench,
                   report, installed, failedAt, sent, sendFailed, rcvd, lastOp>>

\* kill(0, k) returns Err: nobody is struck.  The callers bind the result
\* to `_` and go on to position next.
send_signal_err(s, next) ==
    /\ pc' = [pc EXCEPT ![s] = next]
    /\ sent' = [sent EXCEPT ![s] = @ + 1]
    /\ sendFailed' = [sendFailed EXCEPT ![s] = TRUE]
    /\ lastOp' = [lastOp EXCEPT ![s] = "send"]

ServerSendFail ==
    /\ pc["server"] = "send"
    /\ send_signal_err("server", "wait")
    /\ UNCHANGED <<struck, fed, count, disp, blocked, pend, message, remaining, bench,
                   report, installed, failedAt, rcvd>>

ClientSendReadyFail ==
    /\ pc["client"] = "ready"
    /\ send_signal_err("client", ClientLoop(count))
    /\ remaining' = count
    /\ UNCHANGED <<struck, fed, count, disp, blocked, pend, message, bench, report,
                   installed, failedAt, rcvd>>

ClientEchoFail ==
    /\ pc["client"] = "echo"
    /\ send_signal_err("client", ClientLoop(remaining - 1))
    /\ remaining' = remaining - 1
    /\ UNCHANGED <<struck, fed, count, disp, blocked, pend, message, bench, report,
                   installed, failedAt, rcvd>>

\* The client process is terminated from outside (SIGKILL).
KillClient ==
    /\ Alive("client")
    /\ pc' = [pc EXCEPT !["client"] = "terminated"]
    /\ UNCHANGED <<struck, fed, count, disp, blocked, pend, message, remaining, bench,
                   report, installed, failedAt, sent, sendFailed, rcvd, lastOp>>

\* ------------------------------------------------------------------- Next
ServerStep ==
    \/ Start("server")
    \/ SetupIgnored("server")
    \/ SetupBlocked("server")
    \/ CreateListener("server")
    \/ ServerRecvInitial
    \/ ServerSend
    \/ \E d \in Samples : ServerRecvRound(d)
    \/ ServerEvaluate

ClientStep ==
    \/ Start("client")
    \/ SetupIgnored("client")
    \/ SetupBlocked("client")
    \/ CreateListener("client")
    \/ ClientSendReady
    \/ ClientRecv
    \/ ClientEcho

Next == ServerStep \/ ClientStep

Spec == Init /\ [][Next]_vars

Fault ==
    \/ \E p \in Proc : SetupIgnoredFail(p)
    \/ \E p \in Proc : SetupBlockedFail(p)
    \/ \E p \in Proc : CreateListenerFail(p)
    \/ ServerSendFail
    \/ ClientSendReadyFail
    \/ ClientEchoFail
    \/ KillClient

NextF == Next \/ Fault

\* The program together with failing system calls and a client terminated
\* from outside.
FaultSpec == Init /\ [][NextF]_vars

\* Each process is scheduled by the operating system and keeps running
\* while it has a step to take.
FairSpec == Spec /\ WF_vars(ServerStep) /\ WF_vars(ClientStep)

\* Faults may or may not happen; the processes keep being scheduled.
FairFaultSpec == FaultSpec /\ WF_vars(ServerStep) /\ WF_vars(ClientStep)

\* ---------------------------------------------- the accumulator by itself
\* update and evaluate as pure functions of the accumulator.  args.count is
\* a usize, so a run may be longer than 2^32 rounds; the states of such a
\* run are entered directly: the accumulator after n rounds that all
\* measured the same duration d is what n calls of update(_, d) leave.
AfterEqualSamples(n, d) ==
    IF n = <<>> THEN Benchmarks_new
    ELSE [minimum |-> Min(Benchmarks_new.minimum, d),
          maximum |-> Max(Benchmarks_new.maximum, d),
          sum |-> WMul(n, d),
          squared_sum |-> WMul(n, WMul(d, d)),
          count |-> n]

\* Rounds already completed: none, 2^32 - 1, 2^32.
LongRuns == {<<>>, <<255, 255, 255, 255>>, <<0, 0, 0, 0, 1>>}

InitAcc ==
    /\ count = 0
    /\ pc = [p \in Proc |-> IF p = "server" THEN "wait" ELSE "unstarted"]
    /\ disp = [p \in Proc |-> [k \in Kind |-> "default"]]
    /\ blocked = [p \in Proc |-> {}]
    /\ pend = [p \in Proc |-> 0]
    /\ message = 0
    /\ remaining = 0
    /\ \E n \in LongRuns : \E d \in Samples :
          /\ bench = AfterEqualSamples(n, FromNat(d))
          /\ fed = IF n = <<>> THEN {} ELSE {FromNat(d)}
    /\ report = <<>>
    /\ installed = [p \in Proc |-> <<>>]
    /\ failedAt = [p \in Proc |-> {}]
    /\ sent = [p \in Proc |-> 0]
    /\ sendFailed = [p \in Proc |-> FALSE]
    /\ rcvd = [p \in Proc |-> 0]
    /\ lastOp = [p \in Proc |-> "none"]
    /\ struck = [p \in Proc |-> 0]

\* bench.update(duration), as in a further round.
AccUpdate(duration) ==
    /\ pc["server"] = "wait"
    /\ message < MaxFeed
    /\ bench' = update(bench, FromNat(duration))
    /\ fed' = fed \cup {FromNat(duration)}
    /\ message' = message + 1
    /\ UNCHANGED <<count, pc, disp, blocked, pend, remaining, report,
                   installed, failedAt, sent, sendFailed, rcvd, lastOp, struck>>

\* bench.evaluate(args), as after the last round.
AccEvaluate ==
    /\ pc["server"] = "wait"
    /\ report' = evaluate(bench)
    /\ pc' = [pc EXCEPT !["server"] =
                IF evaluate(bench) = <<>> THEN "panicked" ELSE "done"]
    /\ UNCHANGED <<count, disp, blocked, pend, message, remaining, bench,
                   installed, failedAt, sent, sendFailed, rcvd, lastOp,
                   struck, fed>>

NextAcc == (\E d \in Samples : AccUpdate(d)) \/ AccEvaluate

AccSpec == InitAcc /\ [][NextAcc]_vars

\* ================================================================== claims
Ignored(p) == {k \in Kind : disp[p][k] = "noop"}
Ended(p) == pc[p] \in {"done", "error", "killed", "panicked"}

\* C1: no SIGUSR1 or SIGUSR2 sent group-wide is ever delivered to a process
\* whose disposition for that kind is still the default: no process is ever
\* terminated by the default action of an exchanged notification.
C1_NoDefaultDelivery == \A p \in Proc : pc[p] # "killed"

\* C2: strict alternation.  Whenever a process sends, its previous
\* notification operation was not a send; the server's previous operation
\* was a receipt (its first send follows the initial receipt), the client's
\* was a receipt or nothing (its initial ready send).
C2_StrictAlternation ==
    [][\A p \in Proc :
          sent'[p] # sent[p] =>
             /\ lastOp[p] # "send"
             /\ (p = "server" => lastOp[p] = "recv")
             /\ (p = "client" /\ sent[p] > 0 => lastOp[p] = "recv")]_vars

\* C2 witness: both processes have sent a second time.
C2_Witness == sent["server"] >= 2 /\ sent["client"] >= 3

\* C3: for every round count N > 0, under fair scheduling both the server and
\* the client eventually reach Done, the server having produced its report.
C3_BothDone ==
    (count > 0) =>
        <>(pc["server"] = "done" /\ pc["client"] = "done" /\ report # <<>>)

\* C4: whenever the server reaches evaluate the accumulator's count equals
\* the configured round count, and in every state the count equals the number
\* of round trips completed so far (receipts after the initial ready one).
C4_CountTracksRounds ==
    /\ ToNat(bench.count) = (IF rcvd["server"] = 0 THEN 0 ELSE rcvd["server"] - 1)
    /\ (pc["server"] \in {"evaluate", "done", "panicked"}
           => ToNat(bench.count) = count)

\* C4 witness: a report after at least two rounds.
C4_Witness == pc["server"] = "done" /\ report # <<>> /\ count >= 2

\* C5: a process whose send failed has aborted with a terminal error (it
\* waits, sends and updates no further and prints no report).
C5_SendFailureAborts == \A p \in Proc : sendFailed[p] => pc[p] = "error"

\* C6: with round count 0 a server run that reached finalization ended in a
\* reported error: it neither crashed nor produced a report.
C6_ZeroRoundsIsError ==
    (count = 0 /\ rcvd["server"] > 0 /\ pc["server"] # "evaluate")
        => (pc["server"] = "error" /\ report = <<>>)

\* C7: if the client is terminated after its ready signal and before its
\* N-th echo, the server's run eventually ends (stated for the server that
\* has already received the ready signal, and for any way of ending).
C7_ServerEndsAfterClientDeath ==
    [](( /\ pc["client"] = "terminated"
         /\ sent["client"] >= 1 /\ sent["client"] <= count
         /\ rcvd["server"] >= 1 )
        => <>Ended("server"))

\* C8: a process one of whose disposition installation steps failed has
\* returned the error: it created no listener, sent nothing and updated no
\* accumulator; after a failure of the ignored-set step the blocked-set step
\* was not attempted.
C8_SetupFailureAborts ==
    \A p \in Proc :
        failedAt[p] # {} =>
            /\ pc[p] = "error"
            /\ disp[p][ListenKind(p)] # "observed"
            /\ sent[p] = 0 /\ rcvd[p] = 0
            /\ (p = "server" => bench = Benchmarks_new)
            /\ ("ignored" \in failedAt[p] =>
                   /\ failedAt[p] = {"ignored"}
                   /\ installed[p] = <<>>
                   /\ blocked[p] = {})

\* C8 witness: the server failed at the ignored-set step and the client at
\* the blocked-set step.
C8_Witness ==
    /\ failedAt["server"] = {"ignored"}
    /\ failedAt["client"] = {"blocked"}

\* C9: after a successful setup the server has SIGUSR1 blocked and SIGUSR2
\* ignored, the client SIGUSR2 blocked and SIGUSR1 ignored; each kind is in
\* exactly one of the two sets.
C9_RoleDispositions ==
    \A p \in Proc :
        Len(installed[p]) = 2 =>
            /\ blocked[p] = (IF p = "server" THEN {"SIGUSR1"} ELSE {"SIGUSR2"})
            /\ Ignored(p) = (IF p = "server" THEN {"SIGUSR2"} ELSE {"SIGUSR1"})
            /\ Ignored(p) \cap blocked[p] = {}
            /\ Ignored(p) \cup blocked[p] = Kind

\* C9 witness: both processes completed setup.
C9_Witness == \A p \in Proc : Len(installed[p]) = 2

\* C10: within each process the ignored-set installation completes before
\* the blocked-set installation begins, and both complete before the
\* process's first send.
C10_SetupOrder ==
    \A p \in Proc :
        /\ installed[p] \in {<<>>, <<"ignored">>, <<"ignored", "blocked">>}
        /\ (blocked[p] # {} => Ignored(p) # {})
        /\ (sent[p] > 0 =>
               /\ installed[p] = <<"ignored", "blocked">>
               /\ Ignored(p) # {} /\ blocked[p] # {})

\* C10 witness: both processes have sent.
C10_Witness == sent["server"] > 0 /\ sent["client"] > 0

Peer(p) == IF p = "server" THEN "client" ELSE "server"

\* C11: a process's own group-wide send never crashes the sender: at every
\* send the sender's outbound kind already has the empty handler, also when
\* the peer has not completed or not started its setup.
C11_SenderIgnoresOwnSend ==
    [][\A p \in Proc :
          sent'[p] # sent[p] =>
             /\ SendKind(p) \in Ignored(p)
             /\ pc'[p] # "killed"]_vars

\* C11 witness: the client has sent and lives on while the server has
\* installed nothing.
C11_Witness ==
    /\ sent["client"] >= 1 /\ pc["client"] \notin {"killed", "unstarted"}
    /\ installed["server"] = <<>>

\* C12: once the server has left its initial wait both processes have
\* completed their disposition setup, and every SIGUSR2 the server sends
\* strikes a live client that has SIGUSR2 blocked and observed.
C12_ReadyImpliesSetup ==
    [][/\ (rcvd'["server"] >= 1 => \A p \in Proc : Len(installed'[p]) = 2)
       /\ (sent'["server"] # sent["server"] =>
              /\ Alive("client")
              /\ "SIGUSR2" \in blocked["client"]
              /\ disp["client"]["SIGUSR2"] = "observed")]_vars

\* C12 witness: the server has left its initial wait and has sent.
C12_Witness == rcvd["server"] >= 1 /\ sent["server"] >= 1

\* C13: whenever a process sends, nothing is pending unconsumed at the peer,
\* and at most one notification is ever pending at a listener.
C13_NoCoalescing ==
    [][\A p \in Proc :
          /\ (sent'[p] # sent[p] => pend[Peer(p)] = 0)
          /\ pend'[p] <= 1]_vars

\* C13 witness: a notification of the second round is pending at the client.
C13_Witness == pend["client"] = 1 /\ sent["server"] >= 2

\* C14: no missed and no duplicated wake-ups.  Every notification that
\* struck a process whose setup had completed has been consumed by one wait
\* or is held for the next one, and no wait completed without one.  (A
\* notification that is neither can never be consumed afterwards.)
C14_NoLostWakeup ==
    \A p \in Proc :
        /\ rcvd[p] <= struck[p]
        /\ struck[p] <= rcvd[p] + pend[p]

\* C17: once a process's setup has completed, no later step changes its
\* Ignored set, its mask or its installation history (setup ran once), and
\* no wait, send, update or finalization changes any of its dispositions.
\* (Only the creation of the listener, at "setup_done", installs the
\* runtime's handler for the inbound kind, which is in neither set.)
C17_DispositionsFrozen ==
    [][\A p \in Proc :
          Len(installed[p]) = 2 =>
             /\ blocked'[p] = blocked[p]
             /\ Ignored(p)' = Ignored(p)
             /\ installed'[p] = installed[p]
             /\ (pc[p] # "setup_done" => disp'[p] = disp[p])]_vars

\* C17 witness: both processes ran to completion after their setup.
C17_Witness == pc["server"] = "done" /\ pc["client"] = "done"

\* C19: a process's own send never satisfies its own wait: its own send
\* leaves its listener untouched, a listener gains a notification only in a
\* step in which the peer sends, and no process has woken up more often than
\* its peer has sent.
C19_OwnSendNotObserved ==
    [][\A p \in Proc :
          /\ (sent'[p] # sent[p] => pend'[p] = pend[p])
          /\ (pend'[p] > pend[p] => sent'[Peer(p)] = sent[Peer(p)] + 1)
          /\ rcvd'[p] <= sent'[Peer(p)]]_vars

\* C19 witness: both processes have sent, struck themselves and woken up.
C19_Witness ==
    /\ rcvd["server"] >= 2 /\ rcvd["client"] >= 1
    /\ Alive("server") /\ Alive("client")

\* C20: in a completed run the client has sent count + 1 notifications and
\* the server count; every accumulator update belongs to a server round; and
\* when both processes are done nothing is pending.
C20_CompletedRunCounts ==
    /\ (pc["client"] = "done" => sent["client"] = count + 1)
    /\ (pc["server"] = "done" =>
           /\ sent["server"] = count
           /\ ToNat(bench.count) = message /\ message = count)
    /\ (pc["server"] = "done" /\ pc["client"] = "done" =>
           \A p \in Proc : pend[p] = 0)

\* C20 witness: a completed run of at least two rounds.
C20_Witness ==
    /\ pc["server"] = "done" /\ pc["client"] = "done"
    /\ count >= 2 /\ sent["client"] >= 3

\* C15: for every non-empty sequence of samples fed to update, minimum <=
\* every fed sample <= maximum, and minimum <= mean <= maximum for the mean
\* that evaluate reports.
C15_MinMeanMax ==
    fed # {} =>
        /\ \A s \in fed : WLe(bench.minimum, s) /\ WLe(s, bench.maximum)
        /\ (report # <<>> =>
               /\ WLe(bench.minimum, report[1].average)
               /\ WLe(report[1].average, bench.maximum))

\* C16: after a completed run with round count 1 the accumulator has count 1
\* and minimum = maximum = average = the single sample.
C16_SingleRound ==
    (count = 1 /\ pc["server"] = "done") =>
        \E s \in fed :
            /\ fed = {s}
            /\ bench.count = <<1>>
            /\ bench.minimum = s /\ bench.maximum = s
            /\ report = <<[average |-> s, minimum |-> s, maximum |-> s,
                           count |-> <<1>>]>>

\* C16 witness: a completed single round whose sample is not zero.
C16_Witness ==
    count = 1 /\ pc["server"] = "done" /\ fed # {} /\ <<>> \notin fed

\* C18: for every count > 0 evaluate yields an average, and it is the
\* accumulated sum divided by the accumulated count (rounded down).
C18_AverageIsSumOverCount ==
    (bench.count # <<>> /\ pc["server"] \in {"done", "panicked"}) =>
        /\ report # <<>>
        /\ WLe(WMul(report[1].average, bench.count), bench.sum)
        /\ WLt(bench.sum, WMul(WAdd(report[1].average, <<1>>), bench.count))

====
